---- MODULE Spec2Model ----
(***************************************************************************)
(* A model of the finfind-a2a agent: CountryService (country_service.py)   *)
(* and the /tasks/send handler with its background worker (main.py).       *)
(*                                                                         *)
(* SpecService : one call of CountryService.get_country_details, with the  *)
(*               two model queries in flight together.                     *)
(* Spec        : one request through tasks_send and, when it is accepted,  *)
(*               through process_and_send_response.                        *)
(***************************************************************************)
EXTENDS Integers, Sequences, FiniteSets, TLC

VARIABLES
    \* ---- CountryService.get_country_details ----
    country,        \* the country_name argument
    svcPc,          \* "init" | "gathering" | "done" | "raised"
    histPc,         \* "idle" | "awaiting" | "done" | "raised"   (_get_real_history)
    finPc,          \* "idle" | "awaiting" | "done" | "raised"   (_get_real_fintech)
    histAnswer,     \* what the chat API did for the history query
    finAnswer,      \* what the chat API did for the fintech query
    history_data,   \* the string _get_real_history returned (a sequence of fragments)
    data_list,      \* _get_real_fintech's local: the candidate mappings
    fintech_data,   \* the list _get_real_fintech returned
    report,         \* output_parts of get_country_details
    \* ---- tasks_send / process_and_send_response ----
    req,            \* the request body being handled
    pc,             \* "recv" | "responded"
    resp,           \* the HTTP response of tasks_send
    country_name_raw, \* tasks_send's local, as left by the extraction
    country_name,   \* tasks_send's local
    scanned,        \* how many message parts the loop of tasks_send looked at
    chosen,         \* the index of the part the loop broke at (0: none)
    tasks,          \* background_tasks: the scheduled process_and_send_response calls
    served          \* the requests answered so far, each with its response and the
                    \* tasks its BackgroundTasks object holds

svcVars == <<country, svcPc, histPc, finPc, histAnswer, finAnswer,
             history_data, data_list, fintech_data, report>>
agentVars == <<req, pc, resp, country_name_raw, country_name, scanned, chosen, tasks,
               served>>
vars == <<svcVars, agentVars>>

(***************************************************************************)
(* Bounds of the model.                                                    *)
(***************************************************************************)
MaxItems == 2       \* longest JSON list the model's answer holds
MaxKeys == 2        \* most keys of a wrapper mapping in the model's answer
MaxParts == 2       \* most parts of params.message.parts

(***************************************************************************)
(* JSON values, as json.loads builds them: every value is a record of one  *)
(* shape, t being the Python type.  A dict keeps its keys in document      *)
(* order (keys[i] maps to items[i]).                                       *)
(***************************************************************************)
JStr(x) == [t |-> "str", s |-> x, keys |-> <<>>, items |-> <<>>]
JNum == [t |-> "num", s |-> "1", keys |-> <<>>, items |-> <<>>]
JBool == [t |-> "bool", s |-> "true", keys |-> <<>>, items |-> <<>>]
JNull == [t |-> "null", s |-> "", keys |-> <<>>, items |-> <<>>]
JList(xs) == [t |-> "list", s |-> "", keys |-> <<>>, items |-> xs]
JDict(ks, xs) == [t |-> "dict", s |-> "", keys |-> ks, items |-> xs]

HasKey(d, k) == \E i \in 1..Len(d.keys) : d.keys[i] = k
Get(d, k) == d.items[CHOOSE i \in 1..Len(d.keys) : d.keys[i] = k]

\* isinstance(item, dict) and item
IsNonEmptyDict(v) == v.t = "dict" /\ Len(v.keys) > 0

\* isinstance(data[key], dict) and "name" in data[key]
IsNamedDict(v) == v.t = "dict" /\ HasKey(v, "name")

(***************************************************************************)
(* pydantic: FintechStartup(name: str, description: str, website: HttpUrl) *)
(***************************************************************************)
\* HttpUrl accepts an absolute http(s) URL and stores it normalised: an empty
\* path becomes "/".  The strings of the model's universe, one by one.
HttpUrl(s) ==
    CASE s = "https://a.com" -> [ok |-> TRUE, url |-> "https://a.com/"]
      [] s = "https://b.com" -> [ok |-> TRUE, url |-> "https://b.com/"]
      [] s = "http://c.io/x" -> [ok |-> TRUE, url |-> "http://c.io/x"]
      [] OTHER -> [ok |-> FALSE, url |-> ""]

\* One element of List[FintechStartup] validates.
ValidStartup(d) ==
    /\ d.t = "dict"
    /\ HasKey(d, "name") /\ Get(d, "name").t = "str"
    /\ HasKey(d, "description") /\ Get(d, "description").t = "str"
    /\ HasKey(d, "website") /\ Get(d, "website").t = "str"
    /\ HttpUrl(Get(d, "website").s).ok

FintechStartup(d) ==
    [name |-> Get(d, "name").s,
     description |-> Get(d, "description").s,
     website |-> HttpUrl(Get(d, "website").s).url]

(***************************************************************************)
(* CountryService._get_real_fintech: the parsing logic "v3".               *)
(***************************************************************************)
\* for item in data: a list item gives its non-empty dicts, a non-empty dict
\* gives itself, anything else nothing.
RECURSIVE ListCandidates(_, _)
ListCandidates(items, i) ==
    IF i > Len(items) THEN <<>>
    ELSE LET item == items[i]
             here == IF item.t = "list" THEN SelectSeq(item.items, IsNonEmptyDict)
                     ELSE IF IsNonEmptyDict(item) THEN <<item>>
                     ELSE <<>>
         IN  here \o ListCandidates(items, i + 1)

\* The spec's reading of a mapping: every list value is searched, not only the first.
DictCandidatesEveryList(data) ==
    LET RECURSIVE All(_)
        All(i) == IF i > Len(data.items) THEN <<>>
                  ELSE (IF data.items[i].t = "list"
                        THEN SelectSeq(data.items[i].items, IsNonEmptyDict)
                        ELSE IF IsNamedDict(data.items[i]) THEN <<data.items[i]>>
                        ELSE <<>>) \o All(i + 1)
    IN  All(1)

\* The spec's parallel-arrays reading: name/description/website lists zipped.
DictCandidatesZip(data) ==
    LET cols == HasKey(data, "name") /\ HasKey(data, "description") /\ HasKey(data, "website")
                /\ \A i \in 1..Len(data.items) : data.items[i].t = "list"
        n == IF cols
             THEN CHOOSE m \in 0..Len(Get(data, "name").items) :
                    /\ m <= Len(Get(data, "description").items)
                    /\ m <= Len(Get(data, "website").items)
                    /\ \/ m = Len(Get(data, "name").items)
                       \/ m = Len(Get(data, "description").items)
                       \/ m = Len(Get(data, "website").items)
             ELSE 0
    IN  [i \in 1..n |-> JDict(<<"name", "description", "website">>,
                              <<Get(data, "name").items[i],
                                Get(data, "description").items[i],
                                Get(data, "website").items[i]>>)]

\* elif isinstance(data, dict): the first list value (in key order) is taken and
\* the loop breaks; with no list value, the values that are dicts with a "name".
DictCandidates(data) ==
    LET lists == {i \in 1..Len(data.items) : data.items[i].t = "list"}
    IN  IF lists # {}
        THEN LET k == CHOOSE i \in lists : \A j \in lists : i <= j
             IN  SelectSeq(data.items[k].items, IsNonEmptyDict)
        ELSE SelectSeq(data.items, IsNamedDict)

\* parsed_list, for any json.loads result.
ParsedList(data) ==
    IF data.t = "list" THEN ListCandidates(data.items, 1)
    ELSE IF data.t = "dict" THEN DictCandidates(data)
    ELSE <<>>

\* The spec's reading of validation: a failing element is dropped on its own.
ValidatePythonDropping(dl) ==
    [ok |-> TRUE,
     value |-> LET good == SelectSeq(dl, ValidStartup)
               IN  [i \in 1..Len(good) |-> FintechStartup(good[i])]]

\* TypeAdapter(List[FintechStartup]).validate_python(data_list): one failing
\* element raises ValidationError for the whole list.
ValidatePython(dl) ==
    IF \A i \in 1..Len(dl) : ValidStartup(dl[i])
    THEN [ok |-> TRUE, value |-> [i \in 1..Len(dl) |-> FintechStartup(dl[i])]]
    ELSE [ok |-> FALSE, value |-> <<>>]

(***************************************************************************)
(* What the chat API did: kind is "raise" (create() raised), "none"        *)
(* (content is None), "notjson" (content is text json.loads rejects) or    *)
(* "json" (content is the JSON document data).                             *)
(***************************************************************************)
Api(kind, data) == [kind |-> kind, data |-> data]

\* The try block of _get_real_fintech: the exception it ends with ("none" when it
\* returns), the value it returns, and data_list as it stands then.
FintechTry(ans) ==
    IF ans.kind = "raise" THEN [exc |-> "APIError", value |-> <<>>, dl |-> <<>>]
    ELSE IF ans.kind = "none" THEN [exc |-> "ValueError", value |-> <<>>, dl |-> <<>>]
    ELSE IF ans.kind = "notjson" THEN [exc |-> "JSONDecodeError", value |-> <<>>, dl |-> <<>>]
    ELSE LET dl == ParsedList(ans.data)
             v == ValidatePython(dl)
         IN  IF dl = <<>> THEN [exc |-> "none", value |-> <<>>, dl |-> dl]
             ELSE IF ~v.ok THEN [exc |-> "ValidationError", value |-> <<>>, dl |-> dl]
             ELSE [exc |-> "none", value |-> v.value, dl |-> dl]

\* The handlers without the final "except Exception".
FintechExceptNoCatchAll(r) ==
    IF r.exc \in {"JSONDecodeError", "ValidationError"}
    THEN [raised |-> FALSE, value |-> <<>>, dl |-> r.dl]
    ELSE [raised |-> r.exc # "none", value |-> r.value, dl |-> r.dl]

\* except json.JSONDecodeError / ValidationError / Exception: each returns [].
FintechExcept(r) ==
    IF r.exc \in {"JSONDecodeError", "ValidationError"}
    THEN [raised |-> FALSE, value |-> <<>>, dl |-> r.dl]
    ELSE IF r.exc # "none" THEN [raised |-> FALSE, value |-> <<>>, dl |-> r.dl]
    ELSE [raised |-> FALSE, value |-> r.value, dl |-> r.dl]

_get_real_fintech(ans) == FintechExcept(FintechTry(ans))

(***************************************************************************)
(* CountryService._get_real_history                                        *)
(***************************************************************************)
HistoryFallback(c) == <<"Error: Could not retrieve history for ", c, ".">>

\* _get_real_history without its except clause.
GetRealHistoryNoExcept(ans, c) ==
    IF ans.kind \in {"raise", "none"} THEN [raised |-> TRUE, value |-> <<>>]
    ELSE [raised |-> FALSE, value |-> <<ans.data.s>>]

\* create() raising and content None (ValueError) both end in the except clause,
\* which returns the fallback text.
_get_real_history(ans, c) ==
    IF ans.kind \in {"raise", "none"} THEN [raised |-> FALSE, value |-> HistoryFallback(c)]
    ELSE [raised |-> FALSE, value |-> <<ans.data.s>>]

(***************************************************************************)
(* CountryService.get_country_details: the Markdown report, line by line   *)
(* (output_parts; the final "\n".join keeps the lines and their order).    *)
(***************************************************************************)
StartupLines(fd) ==
    IF fd = <<>> THEN << <<"No fintech data could be found.">> >>
    ELSE [j \in 1..(3 * Len(fd)) |->
            LET i == (j + 2) \div 3
            IN  CASE j % 3 = 1 -> <<"**", ToString(i), ". ", fd[i].name, "**">>
                  [] j % 3 = 2 -> <<"   - *", fd[i].description, "*">>
                  [] OTHER -> <<"   - ", fd[i].website>>]

FormatReport(c, hd, fd) ==
    << <<"Here is the information you requested for **", c, "**:\n">>,
       <<"---">>,
       <<"### History">>,
       hd,
       <<"\n---\n">>,
       <<"### Top Fintech Startups">> >> \o StartupLines(fd)

(***************************************************************************)
(* The answers the chat API can give.                                      *)
(***************************************************************************)
BoundedSeq(S, n) == UNION {[1..k -> S] : k \in 0..n}

Rec(n, d, w) == JDict(<<"name", "description", "website">>, <<n, d, w>>)
R1 == Rec(JStr("A"), JStr("d1"), JStr("https://a.com"))
R2 == Rec(JStr("B"), JStr("d2"), JStr("https://b.com"))
RBadUrl == Rec(JStr("C"), JStr("d3"), JStr("not-a-url"))
RNumName == Rec(JNum, JStr("d4"), JStr("http://c.io/x"))
RNoName == JDict(<<"description", "website">>, <<JStr("d5"), JStr("http://c.io/x")>>)
REmpty == JDict(<<>>, <<>>)
Recs == {R1, R2, RBadUrl, RNumName, RNoName, REmpty}
Scalars == {JStr("A"), JNum, JBool, JNull}

\* Elements of a top-level list: records, scalars, nested lists.
ListElems ==
    Recs \cup {JStr("A"), JNull}
         \cup {JList(<<>>), JList(<<R1>>), JList(<<R2, RBadUrl>>),
               JList(<<JStr("A"), R1>>), JList(<<JList(<<R1>>)>>)}
ListAnswers == {JList(xs) : xs \in BoundedSeq(ListElems, MaxItems)}

\* Column-oriented answers: {"name": [...], "description": [...], "website": [...]}.
NamePool == <<"A", "B", "C", "D">>
DescPool == <<"d1", "d2", "d3", "d4">>
SitePool == <<"https://a.com", "https://b.com", "http://c.io/x", "not-a-url">>
Column(pool, n) == JList([i \in 1..n |-> JStr(pool[((i - 1) % Len(pool)) + 1])])
ParallelAnswers ==
    {JDict(<<"name", "description", "website">>,
           <<Column(NamePool, a), Column(DescPool, b), Column(SitePool, c)>>) :
        a \in 0..MaxItems, b \in 0..MaxItems, c \in 0..MaxItems}

\* Wrapper mappings: up to MaxKeys distinct keys, each with a list, a record, a
\* scalar or a further wrapper under it.
WrapKeys == {"startups", "data", "x"}
WrapVals ==
    {JList(<<>>), JList(<<R1>>), JList(<<R2, RBadUrl>>), JList(<<R2, R2>>), JList(<<JStr("A")>>),
     R1, R2, RBadUrl, RNoName, JStr("A"),
     JDict(<<"startups">>, <<JList(<<R1>>)>>), JDict(<<"x">>, <<R2>>)}
WrapperAnswers ==
    UNION {{JDict(ks, xs) : xs \in [1..Len(ks) -> WrapVals]} :
             ks \in {k \in BoundedSeq(WrapKeys, MaxKeys) :
                        \A i, j \in 1..Len(k) : i # j => k[i] # k[j]}}

JsonAnswers == Scalars \cup Recs \cup ListAnswers \cup ParallelAnswers \cup WrapperAnswers

FintechAnswers ==
    {Api("raise", JNull), Api("none", JNull), Api("notjson", JNull)}
        \cup {Api("json", v) : v \in JsonAnswers}

HistoryAnswers ==
    {Api("raise", JNull), Api("none", JNull), Api("text", JStr("Once upon a time."))}

Countries == {"Kenya", "Nigeria"}
NoAnswer == Api("pending", JNull)

(***************************************************************************)
(* Python strings, as sequences of one-character strings, and the str and  *)
(* re operations tasks_send applies to them.                               *)
(***************************************************************************)
IsSpace(c) == c \in {" ", "\t", "\n", "\r"}

RECURSIVE LStrip(_)
LStrip(s) == IF s # <<>> /\ IsSpace(Head(s)) THEN LStrip(Tail(s)) ELSE s

RECURSIVE RStrip(_)
RStrip(s) == IF s # <<>> /\ IsSpace(s[Len(s)]) THEN RStrip(SubSeq(s, 1, Len(s) - 1)) ELSE s

\* str.strip()
Strip(s) == RStrip(LStrip(s))

\* str.startswith(p)
StartsWith(s, p) == Len(s) >= Len(p) /\ SubSeq(s, 1, Len(p)) = p

\* sub in s
Contains(s, sub) ==
    \E i \in 1..(Len(s) - Len(sub) + 1) : SubSeq(s, i, i + Len(sub) - 1) = sub

\* The characters of s up to the first whitespace character.
RECURSIVE Word(_)
Word(s) == IF s = <<>> \/ IsSpace(Head(s)) THEN <<>> ELSE <<Head(s)>> \o Word(Tail(s))

\* str.split()[0]: the first run of non-whitespace characters; IndexError when
\* there is none.
SplitFirst(s) ==
    IF LStrip(s) = <<>> THEN [exc |-> "IndexError", value |-> <<>>]
    ELSE [exc |-> "none", value |-> Word(LStrip(s))]

\* re.sub(r'<[^>]+>', '', s): scanning from the left, a "<" followed by at least one
\* character other than ">" and then a ">" is removed with all between them.
RECURSIVE ReSubTags(_)
ReSubTags(s) ==
    IF s = <<>> THEN <<>>
    ELSE LET closes == {j \in 2..Len(s) : s[j] = ">"}
             j == CHOOSE x \in closes : \A y \in closes : x <= y
         IN  IF Head(s) = "<" /\ closes # {} /\ j > 2
             THEN ReSubTags(SubSeq(s, j + 1, Len(s)))
             ELSE <<Head(s)>> \o ReSubTags(Tail(s))

(***************************************************************************)
(* The request body of POST /tasks/send.  A Python value that may be a     *)
(* string is [t, s]: t is "str", "num" or "none" (absent / None).          *)
(***************************************************************************)
PStr(x) == [t |-> "str", s |-> x]
PNum == [t |-> "num", s |-> <<"5">>]
PNone == [t |-> "none", s |-> <<>>]

\* Python truthiness of such a value.
Truthy(v) == (v.t = "str" /\ v.s # <<>>) \/ v.t = "num"

Sorry == <<"S", "o", "r", "r", "y">>
YouAreA == <<"Y", "o", "u", " ", "a", "r", "e", " ", "a">>
LengthLimit == 100
Xs(n) == [i \in 1..n |-> "x"]

\* Texts a caller may put in params.input.country_name.
InputTexts ==
    { <<>>,
      <<" ">>,
      <<"K", "e">>,
      <<"K", "e", " ", "i", "s">>,
      <<"K", "e", "\t", "i", "s">>,
      <<"\n", "K", "e", " ", "i", "s">>,
      <<"<", "p", ">", "K", "e", "<", "/", "p", ">">>,
      <<"<", "p", " ", "a", ">", "K", "e", "<", "/", "p", ">">>,
      <<"<", "b", ">", " ", "K", "e">>,
      <<"K", "e", "<", "b", "r", ">", " ", "i", "s">> }
InputValues == {PStr(x) : x \in InputTexts} \cup {PNum, PNone}

\* Texts of the parts of params.message.parts.
PartTexts ==
    { <<>>,
      <<" ">>,
      <<"U", "g">>,
      <<"\n", "U", "g">>,
      <<" ", "<", "p", ">", "U", "g">>,
      <<"U", "g", " ", "<", "b", ">">>,
      Sorry,
      YouAreA \o <<" ", "b", "o", "t">>,
      Xs(LengthLimit),
      <<" ">> \o Xs(LengthLimit - 1) }

Part(kind, hasText, text) == [kind |-> kind, hasText |-> hasText, text |-> text]
Parts ==
    {Part("text", TRUE, x) : x \in PartTexts}
        \cup {Part("text", FALSE, <<>>), Part("data", TRUE, <<"U", "g">>)}

\* params["input"]: absent, not a dict, or a dict with or without country_name.
Inputs ==
    {[kind |-> "absent", country_name |-> PNone], [kind |-> "notdict", country_name |-> PNone]}
        \cup {[kind |-> "dict", country_name |-> v] : v \in InputValues}

\* params["message"]: absent, not a dict, or a dict with or without a parts list.
Messages ==
    {[kind |-> k, hasParts |-> FALSE, parts |-> <<>>] : k \in {"absent", "notdict", "dict"}}
        \cup {[kind |-> "dict", hasParts |-> TRUE, parts |-> ps] : ps \in BoundedSeq(Parts, MaxParts)}

\* params["configuration"]: absent, without pushNotificationConfig, or with one
\* whose url and token are each absent, empty or set.
Hook == <<"h">>
Token == <<"t">>
Configurations ==
    {[kind |-> "absent", hasPush |-> FALSE, url |-> PNone, token |-> PNone],
     [kind |-> "dict", hasPush |-> FALSE, url |-> PNone, token |-> PNone]}
        \cup {c \in [kind : {"dict"}, hasPush : {TRUE},
                      url : {PNone, PStr(<<>>), PStr(Hook)}, token : {PNone, PStr(Token)}] :
                c.url = PStr(Hook) \/ c.token = PNone}

\* The body: unparseable (request.json() raises), or a mapping with or without an id.
Requests ==
    {[valid |-> FALSE, hasId |-> FALSE, input |-> [kind |-> "absent", country_name |-> PNone],
      message |-> [kind |-> "absent", hasParts |-> FALSE, parts |-> <<>>],
      configuration |-> [kind |-> "absent", hasPush |-> FALSE, url |-> PNone, token |-> PNone]]}
        \cup [valid : {TRUE}, hasId : BOOLEAN, input : Inputs, message : Messages,
              configuration : Configurations]

(***************************************************************************)
(* tasks_send: extraction of the country name                              *)
(***************************************************************************)
\* Method 1: params["input"].get("country_name") when input is a dict.
InputName(r) == IF r.input.kind = "dict" THEN r.input.country_name ELSE PNone

\* The filter on a part's stripped text.
Plausible(text) ==
    /\ text # <<>>
    /\ ~StartsWith(text, <<"<">>)
    /\ ~StartsWith(text, <<"\n">>)
    /\ ~Contains(text, Sorry)
    /\ ~Contains(text, YouAreA)
    /\ Len(text) < LengthLimit

\* The filter applied to the text as sent, without strip().
AcceptsPartUnstripped(p) == p.kind = "text" /\ p.hasText /\ Plausible(p.text)

\* part.get("kind") == "text" and "text" in part, and the stripped text passes.
AcceptsPart(p) == p.kind = "text" /\ p.hasText /\ Plausible(Strip(p.text))

\* The loop over message["parts"]: the index of the part it breaks at (0 when it
\* runs to the end).
ChosenPart(parts) ==
    LET ok == {i \in 1..Len(parts) : AcceptsPart(parts[i])}
    IN  IF ok = {} THEN 0 ELSE CHOOSE i \in ok : \A j \in ok : i <= j

\* Extraction that looks at the parts first and at input only after them.
ExtractRawPartsFirst(r) ==
    LET parts == IF r.message.kind = "dict" /\ r.message.hasParts THEN r.message.parts ELSE <<>>
        k == ChosenPart(parts)
    IN  IF k > 0 THEN [raw |-> PStr(Strip(parts[k].text)), looked |-> k, chosen |-> k]
        ELSE [raw |-> InputName(r), looked |-> Len(parts), chosen |-> 0]

\* Lines 181-204: country_name_raw, how many parts were looked at, and the index
\* of the part taken (0: none).
ExtractRaw(r) ==
    LET first == InputName(r)
    IN  IF ~Truthy(first) /\ r.message.kind = "dict" /\ r.message.hasParts
        THEN LET k == ChosenPart(r.message.parts)
             IN  IF k > 0
                 THEN [raw |-> PStr(Strip(r.message.parts[k].text)), looked |-> k, chosen |-> k]
                 ELSE [raw |-> first, looked |-> Len(r.message.parts), chosen |-> 0]
        ELSE [raw |-> first, looked |-> 0, chosen |-> 0]

\* Lines 213-218: the first word when there is a space character, then the tags
\* removed when a "<" is left.  A raw value that is no string has no "in".
CountryName(raw) ==
    IF raw.t # "str" THEN [exc |-> "TypeError", value |-> <<>>]
    ELSE LET w == IF Contains(raw.s, <<" ">>) THEN SplitFirst(raw.s)
                  ELSE [exc |-> "none", value |-> raw.s]
         IN  IF w.exc # "none" THEN w
             ELSE IF Contains(w.value, <<"<">>)
                  THEN [exc |-> "none", value |-> Strip(ReSubTags(w.value))]
                  ELSE w

\* Lines 222-228: webhook_url and token.
WebhookConfig(r) ==
    IF r.configuration.kind = "dict" /\ r.configuration.hasPush
    THEN [url |-> r.configuration.url, token |-> r.configuration.token]
    ELSE [url |-> PNone, token |-> PNone]

(***************************************************************************)
(* tasks_send: the checks, the scheduling and the response                 *)
(***************************************************************************)
\* request_id = raw_body.get("id", f"telex-{uuid.uuid4()}")
RequestId(r) == IF r.hasId THEN "req-1" ELSE "telex-uuid"

NoNameMessage == "Could not find a country name in the request."
NoUrlMessage == "No pushNotificationConfig.url found in request."

\* A handler that lets a request without url through.
CheckWebhookNever(w) == "none"

\* if not webhook_url: raise ValueError(...)
CheckWebhook(w) == IF ~Truthy(w.url) THEN NoUrlMessage ELSE "none"

\* The error answer as a JSON-RPC error object.
ErrorResponseJsonRpc(id, msg) ==
    [status |-> 200, media_type |-> "application/json", kind |-> "jsonrpc_error", id |-> id,
     state |-> "", code |-> -32000, prefix |-> "", message |-> msg, name |-> <<>>]

\* except Exception as e: Response(status_code=500, content=f"Failed to process
\* request: {str(e)}"): a plain-text body, which carries neither the id nor a code.
ErrorResponse(id, msg) ==
    [status |-> 500, media_type |-> "none", kind |-> "plain", id |-> "",
     state |-> "", code |-> 0, prefix |-> "Failed to process request: ", message |-> msg,
     name |-> <<>>]

\* The 200 answer: a JSON-RPC result holding a task in state "working".
TaskResponse(id, name) ==
    [status |-> 200, media_type |-> "application/json", kind |-> "jsonrpc_result", id |-> id,
     state |-> "working", code |-> 0, prefix |-> "Fetching information about ",
     message |-> "... This will take a moment.", name |-> name]

NoResponse ==
    [status |-> 0, media_type |-> "none", kind |-> "none", id |-> "",
     state |-> "", code |-> 0, prefix |-> "", message |-> "", name |-> <<>>]

\* add_task without token=token: process_and_send_response falls back on its
\* default, token=None.
NewTaskDefaultToken(name, url, id, token) ==
    [country_name |-> name, webhook_url |-> url, request_id |-> id, token |-> PNone,
     pc |-> "queued", chat |-> <<>>, posts |-> <<>>]

\* background_tasks.add_task(process_and_send_response, country_name, webhook_url,
\* request_id, token=token)
NewTask(name, url, id, token) ==
    [country_name |-> name, webhook_url |-> url, request_id |-> id, token |-> token,
     pc |-> "queued", chat |-> <<>>, posts |-> <<>>]

\* The whole handler on request r: the response, the tasks scheduled, and the
\* locals as they stand when it returns.
TasksSendOutcome(r) ==
    LET id == IF r.valid THEN RequestId(r) ELSE "unknown"
        e == ExtractRaw(r)
        n == CountryName(e.raw)
        w == WebhookConfig(r)
        Failed(msg, raw, name, ex) ==
            [resp |-> ErrorResponse(id, msg), tasks |-> <<>>, raw |-> raw, name |-> name,
             looked |-> ex.looked, chosen |-> ex.chosen]
    IN  IF ~r.valid
        THEN Failed("JSONDecodeError", PNone, PNone, [looked |-> 0, chosen |-> 0])
        ELSE IF ~Truthy(e.raw) THEN Failed(NoNameMessage, e.raw, PNone, e)
        ELSE IF n.exc # "none" THEN Failed(n.exc, e.raw, PNone, e)
        ELSE IF CheckWebhook(w) # "none" THEN Failed(CheckWebhook(w), e.raw, PStr(n.value), e)
        ELSE [resp |-> TaskResponse(id, n.value),
              tasks |-> <<NewTask(n.value, w.url, id, w.token)>>,
              raw |-> e.raw, name |-> PStr(n.value),
              looked |-> e.looked, chosen |-> e.chosen]

(***************************************************************************)
(* SpecService: CountryService.get_country_details as a process.           *)
(***************************************************************************)
AgentIdle ==
    /\ req = [valid |-> FALSE, hasId |-> FALSE,
              input |-> [kind |-> "absent", country_name |-> PNone],
              message |-> [kind |-> "absent", hasParts |-> FALSE, parts |-> <<>>],
              configuration |-> [kind |-> "absent", hasPush |-> FALSE,
                                 url |-> PNone, token |-> PNone]]
    /\ pc = "off"
    /\ resp = NoResponse
    /\ country_name_raw = PNone
    /\ country_name = PNone
    /\ scanned = 0
    /\ chosen = 0
    /\ tasks = <<>>
    /\ served = <<>>

ServiceIdle ==
    /\ svcPc = "off"
    /\ histPc = "idle"
    /\ finPc = "idle"
    /\ histAnswer = NoAnswer
    /\ finAnswer = NoAnswer
    /\ history_data = <<>>
    /\ data_list = <<>>
    /\ fintech_data = <<>>
    /\ report = <<>>

InitService ==
    /\ country \in Countries
    /\ svcPc = "init"
    /\ histPc = "idle"
    /\ finPc = "idle"
    /\ histAnswer = NoAnswer
    /\ finAnswer = NoAnswer
    /\ history_data = <<>>
    /\ data_list = <<>>
    /\ fintech_data = <<>>
    /\ report = <<>>
    /\ AgentIdle

\* asyncio.gather(history_task, fintech_task): both coroutines run up to their
\* await of the chat API before either can resume.
Gather ==
    /\ svcPc = "init"
    /\ svcPc' = "gathering"
    /\ histPc' = "awaiting"
    /\ finPc' = "awaiting"
    /\ UNCHANGED <<country, histAnswer, finAnswer, history_data, data_list,
                   fintech_data, report, agentVars>>

\* The history query comes back (or fails) and _get_real_history finishes.
HistoryReturns ==
    /\ histPc = "awaiting"
    /\ \E ans \in HistoryAnswers :
         LET r == _get_real_history(ans, country)
         IN  /\ histAnswer' = ans
             /\ history_data' = r.value
             /\ histPc' = IF r.raised THEN "raised" ELSE "done"
    /\ UNCHANGED <<country, svcPc, finPc, finAnswer, data_list, fintech_data,
                   report, agentVars>>

\* The fintech query comes back (or fails) and _get_real_fintech finishes.
FintechReturns ==
    /\ finPc = "awaiting"
    /\ \E ans \in FintechAnswers :
         LET r == _get_real_fintech(ans)
         IN  /\ finAnswer' = ans
             /\ data_list' = r.dl
             /\ fintech_data' = r.value
             /\ finPc' = IF r.raised THEN "raised" ELSE "done"
    /\ UNCHANGED <<country, svcPc, histPc, histAnswer, history_data, report, agentVars>>

\* Whether gather may hand over: both coroutines have finished.
GatherDone == histPc \in {"done", "raised"} /\ finPc \in {"done", "raised"}

\* The await of gather returns, and the report is formatted; an exception of
\* either coroutine leaves get_country_details through gather.
Format ==
    /\ svcPc = "gathering"
    /\ GatherDone
    /\ IF histPc = "raised" \/ finPc = "raised"
       THEN svcPc' = "raised" /\ report' = <<>>
       ELSE svcPc' = "done" /\ report' = FormatReport(country, history_data, fintech_data)
    /\ UNCHANGED <<country, histPc, finPc, histAnswer, finAnswer, history_data,
                   data_list, fintech_data, agentVars>>

NextService == Gather \/ HistoryReturns \/ FintechReturns \/ Format

SpecService == InitService /\ [][NextService]_vars

\* get_country_details as one value, for a caller that awaits it.
get_country_details(c, hAns, fAns) ==
    LET h == _get_real_history(hAns, c)
        f == _get_real_fintech(fAns)
    IN  IF h.raised \/ f.raised THEN [raised |-> TRUE, value |-> <<>>]
        ELSE [raised |-> FALSE, value |-> FormatReport(c, h.value, f.value)]

(***************************************************************************)
(* Spec: one request through tasks_send and its background task.           *)
(***************************************************************************)
Init ==
    /\ req \in Requests
    /\ pc = "recv"
    /\ resp = NoResponse
    /\ country_name_raw = PNone
    /\ country_name = PNone
    /\ scanned = 0
    /\ chosen = 0
    /\ tasks = <<>>
    /\ served = <<>>
    /\ country = "none"
    /\ ServiceIdle

\* What one call of tasks_send leaves behind: the body, the response returned,
\* the final country_name, and the tasks of this call's BackgroundTasks object
\* (FastAPI injects one per request and runs it after the response is sent), as
\* the positions first .. first + count - 1 of tasks.
Served(r, o, before) ==
    [req |-> r, resp |-> o.resp, name |-> o.name, first |-> before + 1,
     count |-> Len(o.tasks)]

\* POST /tasks/send: the handler runs from the body to its response.
TasksSend ==
    /\ pc = "recv"
    /\ LET o == TasksSendOutcome(req)
       IN  /\ resp' = o.resp
           /\ tasks' = tasks \o o.tasks
           /\ served' = Append(served, Served(req, o, Len(tasks)))
           /\ country_name_raw' = o.raw
           /\ country_name' = o.name
           /\ scanned' = o.looked
           /\ chosen' = o.chosen
    /\ pc' = "responded"
    /\ UNCHANGED <<req, svcVars>>

\* The answers of the chat API during a background task.
TaskHistoryAnswers == HistoryAnswers
TaskFintechAnswers == {Api("json", JList(<<R1>>))}

\* What a POST to the webhook can do: answer 2xx, answer an error status (which
\* httpx returns like any response), or raise (connection, timeout, bad url).
PostOutcomes == {"2xx", "401", "raise"}

\* One client.post(webhook_url, json=..., headers=...).
Post(payload, t, outcome) ==
    [payload |-> payload, url |-> t.webhook_url, id |-> t.request_id,
     bearer |-> IF Truthy(t.token) THEN t.token ELSE PNone, outcome |-> outcome]

\* The except clause when a failed POST of the message is only logged.
AfterPostLogOnly(outcome) == "done"

\* Where the try block goes after client.post: on to "Complete", or, when the
\* POST raised, into "except Exception".
AfterPost(outcome) == IF outcome = "raise" THEN "except" ELSE "done"

\* process_and_send_response, step 1 and 2: get_country_details is awaited and
\* the message/send request is built.
BgBuild(i) ==
    /\ pc = "responded"
    /\ tasks[i].pc = "queued"
    /\ \E h \in TaskHistoryAnswers, f \in TaskFintechAnswers :
         LET d == get_country_details(tasks[i].country_name, h, f)
         IN  tasks' = [tasks EXCEPT ![i].chat = d.value,
                                    ![i].pc = IF d.raised THEN "except" ELSE "built"]
    /\ UNCHANGED <<req, pc, resp, country_name_raw, country_name, scanned, chosen,
                   served, svcVars>>

\* Step 3 and 4: the headers are built and the request is POSTed to the webhook.
BgPost(i) ==
    /\ pc = "responded"
    /\ tasks[i].pc = "built"
    /\ \E outcome \in PostOutcomes :
         tasks' = [tasks EXCEPT ![i].posts = Append(@, Post("message", tasks[i], outcome)),
                                ![i].pc = AfterPost(outcome)]
    /\ UNCHANGED <<req, pc, resp, country_name_raw, country_name, scanned, chosen,
                   served, svcVars>>

\* except Exception: a JSON-RPC error response is POSTed to the same webhook; a
\* failure of that POST is logged.
BgExcept(i) ==
    /\ pc = "responded"
    /\ tasks[i].pc = "except"
    /\ \E outcome \in PostOutcomes :
         tasks' = [tasks EXCEPT ![i].posts = Append(@, Post("error", tasks[i], outcome)),
                                ![i].pc = "done"]
    /\ UNCHANGED <<req, pc, resp, country_name_raw, country_name, scanned, chosen,
                   served, svcVars>>

Next ==
    \/ TasksSend
    \/ \E i \in 1..Len(tasks) : BgBuild(i)
    \/ \E i \in 1..Len(tasks) : BgPost(i)
    \/ \E i \in 1..Len(tasks) : BgExcept(i)

Spec == Init /\ [][Next]_vars

(***************************************************************************)
(* SpecSeq: requests one after another on the same server, their           *)
(* background tasks running between and after them.                        *)
(***************************************************************************)
MaxRequests == 2

Body(hasId, input, message, configuration) ==
    [valid |-> TRUE, hasId |-> hasId, input |-> input, message |-> message,
     configuration |-> configuration]
NoInput == [kind |-> "absent", country_name |-> PNone]
InputOf(text) == [kind |-> "dict", country_name |-> PStr(text)]
NoMessage == [kind |-> "absent", hasParts |-> FALSE, parts |-> <<>>]
MessageOf(text) == [kind |-> "dict", hasParts |-> TRUE, parts |-> <<Part("text", TRUE, text)>>]
Push(url, token) == [kind |-> "dict", hasPush |-> TRUE, url |-> url, token |-> token]
NoPush == [kind |-> "dict", hasPush |-> FALSE, url |-> PNone, token |-> PNone]

\* One body for each way through tasks_send: two that reach add_task (with id
\* and token, name from input; without id and token, name from a part), and one
\* for each raise: no url, no name, split()[0] on blanks, request.json().
SeqRequests ==
    { Body(TRUE, InputOf(<<"K", "e", " ", "i", "s">>), NoMessage, Push(PStr(Hook), PStr(Token))),
      Body(FALSE, NoInput, MessageOf(<<"\n", "U", "g">>), Push(PStr(Hook), PNone)),
      Body(TRUE, InputOf(<<"K", "e">>), NoMessage, NoPush),
      Body(TRUE, NoInput, MessageOf(Sorry), Push(PStr(Hook), PStr(Token))),
      Body(FALSE, InputOf(<<" ">>), NoMessage, Push(PStr(Hook), PStr(Token))),
      [valid |-> FALSE, hasId |-> FALSE, input |-> NoInput, message |-> NoMessage,
       configuration |-> [kind |-> "absent", hasPush |-> FALSE, url |-> PNone, token |-> PNone]] }

InitSeq ==
    /\ req \in SeqRequests
    /\ pc = "recv"
    /\ resp = NoResponse
    /\ country_name_raw = PNone
    /\ country_name = PNone
    /\ scanned = 0
    /\ chosen = 0
    /\ tasks = <<>>
    /\ served = <<>>
    /\ country = "none"
    /\ ServiceIdle

\* The next POST /tasks/send arrives: a new call of tasks_send, with fresh locals
\* and a fresh BackgroundTasks object; the tasks of earlier calls stay as they are.
Receive(r) ==
    /\ pc = "responded"
    /\ Len(served) < MaxRequests
    /\ req' = r
    /\ pc' = "recv"
    /\ resp' = NoResponse
    /\ country_name_raw' = PNone
    /\ country_name' = PNone
    /\ scanned' = 0
    /\ chosen' = 0
    /\ UNCHANGED <<tasks, served, svcVars>>

NextSeq ==
    \/ \E r \in SeqRequests : Receive(r)
    \/ TasksSend
    \/ \E i \in 1..Len(tasks) : BgBuild(i)
    \/ \E i \in 1..Len(tasks) : BgPost(i)
    \/ \E i \in 1..Len(tasks) : BgExcept(i)

SpecSeq == InitSeq /\ [][NextSeq]_vars

(***************************************************************************)
(* Properties of CountryService, checked under SpecService.                *)
(***************************************************************************)
FintechFinished == finPc \in {"done", "raised"}
StartupType == [name : STRING, description : STRING, website : STRING]

\* C1: whatever the chat API gives back (any JSON value, text that is no JSON, no
\* content, an exception), _get_real_fintech returns a list and lets no exception
\* out.
C1_NormalizeReturnsList ==
    FintechFinished => finPc = "done" /\ fintech_data \in Seq(StartupType)

\* C1 witness: a nested container was normalised, a list (here empty) came back.
C1_Witness ==
    /\ finPc = "done"
    /\ finAnswer = Api("json", JList(<<JList(<<JList(<<R1>>)>>)>>))
    /\ fintech_data = <<>>

Passing(dl) == {i \in 1..Len(dl) : ValidStartup(dl[i])}
Mixed(dl) == Passing(dl) # {} /\ Passing(dl) # 1..Len(dl)

\* The records of dl that pass validation, in their order.
RECURSIVE PassingInOrder(_)
PassingInOrder(dl) ==
    IF dl = <<>> THEN <<>>
    ELSE (IF ValidStartup(Head(dl)) THEN <<FintechStartup(Head(dl))>> ELSE <<>>)
            \o PassingInOrder(Tail(dl))

\* C2 as the claim states it: with passing and failing candidates together, the
\* result is exactly the passing ones, in order.
C2_Original ==
    (finPc = "done" /\ finAnswer.kind = "json" /\ Mixed(data_list))
        => fintech_data = PassingInOrder(data_list)

\* C2, amended: validation is all or nothing.  One failing candidate empties the
\* whole result, passing records included; when every candidate passes, the result
\* is the candidates in their order.
C2_AllOrNothing ==
    (finPc = "done" /\ finAnswer.kind = "json")
        => /\ Passing(data_list) # 1..Len(data_list) => fintech_data = <<>>
           /\ Passing(data_list) = 1..Len(data_list)
                => /\ Len(fintech_data) = Len(data_list)
                   /\ \A i \in 1..Len(data_list) :
                        /\ fintech_data[i].name = Get(data_list[i], "name").s
                        /\ fintech_data[i].description = Get(data_list[i], "description").s

\* C2 witness: a passing and a failing candidate were found and nothing is returned.
C2_Witness ==
    /\ finPc = "done"
    /\ data_list = <<R2, RBadUrl>>
    /\ fintech_data = <<>>

\* A column-oriented answer: name, description and website each map to a list.
IsParallel(d) ==
    /\ d.t = "dict"
    /\ d.keys = <<"name", "description", "website">>
    /\ \A i \in 1..3 : d.items[i].t = "list"

Shortest(d) ==
    CHOOSE m \in {Len(d.items[i].items) : i \in 1..3} :
        \A i \in 1..3 : m <= Len(d.items[i].items)

\* C3 as the claim states it: one candidate per index, name[i] with description[i]
\* and website[i], up to the shortest list.
C3_Original ==
    (finPc = "done" /\ finAnswer.kind = "json" /\ IsParallel(finAnswer.data))
        => /\ Len(data_list) = Shortest(finAnswer.data)
           /\ \A i \in 1..Len(data_list) :
                /\ Get(data_list[i], "name") = finAnswer.data.items[1].items[i]
                /\ Get(data_list[i], "description") = finAnswer.data.items[2].items[i]
                /\ Get(data_list[i], "website") = finAnswer.data.items[3].items[i]

\* C3, amended: the lists of a column-oriented answer are not zipped.  Only the
\* first list is looked at, its string elements are no candidates, and the result
\* is the empty list.
C3_ParallelGivesNothing ==
    (finPc = "done" /\ finAnswer.kind = "json" /\ IsParallel(finAnswer.data)
        /\ \A i \in 1..3 : \A j \in 1..Len(finAnswer.data.items[i].items) :
              finAnswer.data.items[i].items[j].t = "str")
        => data_list = <<>> /\ fintech_data = <<>>

\* C3 witness: three columns of two entries each were answered.
C3_Witness ==
    /\ finPc = "done"
    /\ finAnswer.kind = "json"
    /\ IsParallel(finAnswer.data)
    /\ \A i \in 1..3 : Len(finAnswer.data.items[i].items) = 2
    /\ fintech_data = <<>>

\* A wrapper mapping: a mapping that is not itself a record and not column-oriented.
IsWrapper(d) ==
    /\ d.t = "dict"
    /\ ~(HasKey(d, "name") /\ HasKey(d, "description"))
    /\ ~IsParallel(d)

\* The candidates found under a value by a search of every level, in pre-order:
\* a mapping with a name is a candidate, any other container is searched.
RECURSIVE FoundUnder(_)
FoundUnder(v) ==
    LET RECURSIVE Each(_, _)
        Each(xs, i) == IF i > Len(xs) THEN <<>> ELSE FoundUnder(xs[i]) \o Each(xs, i + 1)
    IN  IF v.t = "dict" /\ HasKey(v, "name") THEN <<v>>
        ELSE IF v.t \in {"dict", "list"} THEN Each(v.items, 1)
        ELSE <<>>

\* C4 as the claim states it: the candidates of a wrapper mapping are those found
\* under every one of its values, nested values included, in key order.
C4_Original ==
    (finPc = "done" /\ finAnswer.kind = "json" /\ IsWrapper(finAnswer.data))
        => data_list = FoundUnder(finAnswer.data)

\* C4, amended: a wrapper mapping is searched one level deep and not under every
\* value.  When some value is a list, the candidates are the non-empty mappings in
\* the first such list (in key order) and every other value is ignored; when no
\* value is a list, the candidates are the values that are mappings with a name,
\* in key order.  Repeated entries stay.
C4_FirstListOrNamedValues ==
    (finPc = "done" /\ finAnswer.kind = "json" /\ IsWrapper(finAnswer.data))
        => LET d == finAnswer.data
               lists == {i \in 1..Len(d.items) : d.items[i].t = "list"}
           IN  IF lists # {}
               THEN \E k \in lists :
                      /\ \A j \in lists : k <= j
                      /\ data_list = SelectSeq(d.items[k].items,
                                               LAMBDA x : x.t = "dict" /\ x.keys # <<>>)
               ELSE data_list = SelectSeq(d.items,
                                          LAMBDA x : x.t = "dict" /\ HasKey(x, "name"))

\* C4 witness: a wrapper with two lists of records was answered, the second list
\* holding a repeated record, and only the first list's record is a candidate.
C4_Witness ==
    /\ finPc = "done"
    /\ finAnswer = Api("json", JDict(<<"startups", "data">>,
                                     <<JList(<<R1>>), JList(<<R2, R2>>)>>))
    /\ data_list = <<R1>>

\* C10: the two queries are started together and the report is formatted only when
\* both have finished; whatever each query did, a report comes back.  A failed
\* history query leaves the fallback text in the history section and the startup
\* section as the startup query gave it; a failed startup query leaves "No fintech
\* data could be found." and the history section as the history query gave it.
C10_JoinThenReport ==
    /\ (histPc = "idle") <=> (finPc = "idle")
    /\ svcPc \in {"done", "raised"} => GatherDone
    /\ svcPc # "raised" /\ histPc # "raised" /\ finPc # "raised"
    /\ svcPc = "done" =>
         /\ Len(report) > 6
         /\ histAnswer.kind \in {"raise", "none"}
              => /\ report[4] = <<"Error: Could not retrieve history for ", country, ".">>
                 /\ fintech_data # <<>> =>
                      /\ Len(report) = 6 + 3 * Len(fintech_data)
                      /\ \A i \in 1..Len(fintech_data) :
                           /\ report[6 + 3 * i - 2][4] = fintech_data[i].name
                           /\ report[6 + 3 * i - 1][2] = fintech_data[i].description
                           /\ report[6 + 3 * i][2] = fintech_data[i].website
         /\ finAnswer.kind \in {"raise", "none", "notjson"}
              => /\ SubSeq(report, 6, Len(report)) =
                        << <<"### Top Fintech Startups">>, <<"No fintech data could be found.">> >>
                 /\ histAnswer.kind = "text" => report[4] = <<histAnswer.data.s>>

\* C10 witness: the history query failed, the startup query gave two records, and
\* the report holds both sections.
C10_Witness ==
    /\ svcPc = "done"
    /\ histAnswer.kind = "raise"
    /\ Len(fintech_data) = 2
    /\ Len(report) = 12

(***************************************************************************)
(* Properties of tasks_send and process_and_send_response, checked under   *)
(* Spec.                                                                   *)
(***************************************************************************)
Responded == pc = "responded" /\ req.valid
Parts_(r) == IF r.message.kind = "dict" /\ r.message.hasParts THEN r.message.parts ELSE <<>>
InputGiven(r) ==
    r.input.kind = "dict" /\ r.input.country_name.t = "str" /\ r.input.country_name.s # <<>>

\* C5: with a non-empty string in params.input.country_name, the name is taken
\* from that field and the parts are not looked at, whatever they hold; the parts
\* are looked at only when the input field gives nothing.
C5_InputWins ==
    Responded =>
        /\ InputGiven(req) =>
             /\ country_name_raw = req.input.country_name
             /\ scanned = 0
             /\ chosen = 0
             /\ \A i \in 1..Len(tasks) :
                  tasks[i].country_name = CountryName(req.input.country_name).value
        /\ scanned > 0 => ~InputGiven(req)

\* C5 witness: a request with input.country_name and a usable text part was
\* accepted under the name of the input field.
C5_Witness ==
    /\ Responded
    /\ req.input.kind = "dict"
    /\ req.input.country_name = PStr(<<"K", "e">>)
    /\ Len(Parts_(req)) = 2
    /\ Parts_(req)[1] = Part("text", TRUE, <<"U", "g">>)
    /\ Len(tasks) = 1
    /\ tasks[1].country_name = <<"K", "e">>

\* The tests of the claim on a text x.
PassesTests(x) ==
    /\ x # <<>>
    /\ x[1] # "<"
    /\ x[1] # "\n"
    /\ \A i \in 1..(Len(x) - 4) : SubSeq(x, i, i + 4) # <<"S", "o", "r", "r", "y">>
    /\ \A i \in 1..(Len(x) - 8) :
         SubSeq(x, i, i + 8) # <<"Y", "o", "u", " ", "a", "r", "e", " ", "a">>
    /\ Len(x) < 100

FromParts == Responded /\ ~Truthy(InputName(req)) /\ Parts_(req) # <<>>

\* C6 as the claim states it: the part taken is the first of kind "text" whose
\* text, as sent, passes the tests; parts before it are skipped, and when no part
\* passes no name comes from the parts.
C6_Original ==
    FromParts =>
        LET ps == Parts_(req)
            ok == {i \in 1..Len(ps) : ps[i].kind = "text" /\ ps[i].hasText
                                        /\ PassesTests(ps[i].text)}
        IN  /\ ok = {} => chosen = 0 /\ ~Truthy(country_name_raw)
            /\ ok # {} => chosen \in ok /\ \A j \in ok : chosen <= j

\* C6, amended: the tests are made on the part's text with leading and trailing
\* whitespace removed.  The part taken is the first of kind "text" whose trimmed
\* text passes them, and the name is that trimmed text; so a text that starts with
\* a newline or a blank is judged by what follows it, and the length is the
\* trimmed length.
C6_FirstPlausiblePart ==
    FromParts =>
        LET ps == Parts_(req)
            ok == {i \in 1..Len(ps) : ps[i].kind = "text" /\ ps[i].hasText
                                        /\ PassesTests(Strip(ps[i].text))}
        IN  /\ ok = {} => chosen = 0 /\ ~Truthy(country_name_raw) /\ scanned = Len(ps)
            /\ ok # {} =>
                 /\ chosen \in ok
                 /\ \A j \in ok : chosen <= j
                 /\ scanned = chosen
                 /\ country_name_raw = PStr(Strip(ps[chosen].text))

\* C6 witness: the first part, an apology, was skipped and the second part, whose
\* text starts with a newline, was taken.
C6_Witness ==
    /\ FromParts
    /\ Parts_(req) = <<Part("text", TRUE, Sorry), Part("text", TRUE, <<"\n", "U", "g">>)>>
    /\ chosen = 2
    /\ country_name_raw = PStr(<<"U", "g">>)

\* Neither params.input nor params.message.parts gave a name.
NoNameFound == Responded /\ ~Truthy(InputName(req)) /\ chosen = 0

\* No model query and no webhook delivery was started: no background task exists.
NothingStarted == tasks = <<>>

NameButNoUrl ==
    /\ Responded
    /\ country_name.t = "str"
    /\ ~(req.configuration.kind = "dict" /\ req.configuration.hasPush
            /\ req.configuration.url.t = "str" /\ req.configuration.url.s # <<>>)

C9_Original == \A i \in 1..Len(tasks) : Len(tasks[i].posts) <= 1

\* C9, amended: at most two POSTs per accepted request.  The first carries the
\* message.  When it raises (and only then) one more POST follows, carrying a
\* JSON-RPC error response to the same webhook; a POST answered with an error
\* status, and a failure of the second POST, are only logged, and nothing is POSTed
\* after that.
C9_AtMostOneErrorPost ==
    \A i \in 1..Len(tasks) :
        LET t == tasks[i]
        IN  /\ Len(t.posts) <= 2
            /\ Len(t.posts) >= 1 => t.posts[1].payload = "message"
            /\ Len(t.posts) = 2 =>
                 /\ t.posts[1].outcome = "raise"
                 /\ t.posts[2].payload = "error"
                 /\ t.posts[2].url = t.posts[1].url
                 /\ t.pc = "done"
            /\ (t.pc = "done" /\ t.posts[1].outcome = "raise") => Len(t.posts) = 2
            /\ (Len(t.posts) = 1 /\ t.posts[1].outcome # "raise") => t.pc = "done"

\* C9 witness: the POST of the message raised, the POST of the error raised too,
\* and the task has ended.
C9_Witness ==
    /\ Len(tasks) = 1
    /\ tasks[1].pc = "done"
    /\ Len(tasks[1].posts) = 2
    /\ tasks[1].posts[1].outcome = "raise"
    /\ tasks[1].posts[2].outcome = "raise"

\* The name the two rules give when applied in their order: every <...> segment
\* removed and the rest trimmed, then the first token, any whitespace delimiting.
\* (A text without "<" holds no segment to remove.)
TagsThenFirstToken(text) ==
    LET bare == IF \E i \in 1..Len(text) : text[i] = "<" THEN ReSubTags(text) ELSE text
        rest == Strip(bare)
        gaps == {i \in 1..Len(rest) : IsSpace(rest[i])}
    IN  IF gaps = {} THEN rest
        ELSE SubSeq(rest, 1, (CHOOSE i \in gaps : \A j \in gaps : i <= j) - 1)

\* C11: whenever tasks_send has settled on a final entity name, that name is the
\* matched text with every <...> segment removed and trimmed, cut to its first
\* whitespace-delimited token; tags holding blanks and texts separated by tabs or
\* newlines included.
C11_Original ==
    (Responded /\ country_name_raw.t = "str" /\ country_name.t = "str")
        => country_name.s = TagsThenFirstToken(country_name_raw.s)

\* C11 on the texts that hold no "<" and no whitespace other than the space
\* character, where the order of the two rules and the kind of whitespace cannot
\* matter.
C11_PlainTexts ==
    (Responded /\ country_name_raw.t = "str" /\ country_name.t = "str"
        /\ \A i \in 1..Len(country_name_raw.s) :
              country_name_raw.s[i] \notin {"<", "\t", "\n", "\r"})
        => country_name.s = TagsThenFirstToken(country_name_raw.s)

(***************************************************************************)
(* C12: scheduling and acknowledgement                                     *)
(***************************************************************************)
\* The 200 "working" task acknowledgement.
Acknowledged(e) ==
    e.resp.status = 200 /\ e.resp.kind = "jsonrpc_result" /\ e.resp.state = "working"

\* The number of requests acknowledged among the first k answered.
AcknowledgedUpTo(k) == Cardinality({j \in 1..k : Acknowledged(served[j])})

\* The background task of an acknowledged request carries that request's data,
\* and so does every POST it has made.
TaskIsFor(t, e) ==
    /\ t.request_id = RequestId(e.req)
    /\ e.name = PStr(t.country_name)
    /\ t.webhook_url = e.req.configuration.url
    /\ t.token = e.req.configuration.token
    /\ \A j \in 1..Len(t.posts) :
          /\ t.posts[j].url = e.req.configuration.url
          /\ t.posts[j].id = RequestId(e.req)
          /\ t.posts[j].bearer = e.req.configuration.token

\* C12: over any sequence of requests, a request has a background task exactly
\* when tasks_send answered it with the 200 "working" acknowledgement: a request
\* answered with an error (500) has no task, and so no webhook POST is made for
\* it (every task, and with it every POST, belongs to an acknowledged request);
\* every acknowledged request has exactly one task, and that task and its POSTs
\* use the request's id, entity name, url and token.
C12_OneTaskPerAcknowledgement ==
    /\ Len(tasks) = AcknowledgedUpTo(Len(served))
    /\ \A k \in 1..Len(served) :
          LET e == served[k]
          IN  /\ Acknowledged(e) \/ e.resp.status = 500
              /\ e.first = AcknowledgedUpTo(k - 1) + 1
              /\ e.count = IF Acknowledged(e) THEN 1 ELSE 0
              /\ Acknowledged(e) => TaskIsFor(tasks[e.first], e)

\* Reached: a refused request and an acknowledged one with a token, in one run,
\* the task of the acknowledged one having POSTed.
C12_Witness ==
    /\ Len(served) = MaxRequests
    /\ \E k \in 1..Len(served) : served[k].resp.status = 500
    /\ \E k \in 1..Len(served) :
          /\ Acknowledged(served[k])
          /\ served[k].req.configuration.token = PStr(Token)
          /\ tasks[served[k].first].pc = "done"
          /\ Len(tasks[served[k].first].posts) >= 1

====
